---- MODULE Spec2Model ----
(***************************************************************************)
(* Model of ccobra_bench/evaluator.py: the Evaluator constructor (dataset  *)
(* loading, domain / response-type registry, identifier remapping) and     *)
(* Evaluator.evaluate (model loading inside dir_context, applicability     *)
(* check, pre-training, the per-subject predict / compare / adapt loop and *)
(* the result table).                                                      *)
(*                                                                         *)
(* Strings that the code splits are sequences of one-character strings, so *)
(* that str.split is computed and not assumed.                             *)
(***************************************************************************)
EXTENDS Integers, Sequences, FiniteSets, TLC

\* -------------------------------------------------------------- bounds
\* largest number of rows of a test dataset
MaxTest == 2
\* largest number of rows of a training dataset
MaxTrain == 2
\* number of entries of the model list
NumModels == 2

\* ------------------------------------------------------ generic helpers
Range(s) == {s[i] : i \in DOMAIN s}

Min(S) == CHOOSE x \in S : \A y \in S : x <= y

RECURSIVE SortedSeq(_)
\* the elements of a finite set of integers in ascending order
SortedSeq(S) ==
    IF S = {} THEN <<>> ELSE <<Min(S)>> \o SortedSeq(S \ {Min(S)})

\* position of the first occurrence of x in s (x occurs in s)
FirstIndex(s, x) == Min({i \in DOMAIN s : s[i] = x})

\* ------------------------------------------------------- str.split
RECURSIVE Split(_, _)
\* Python's s.split(sep) for a one-character sep: the pieces between the
\* separators, empty pieces kept, always at least one piece.
Split(s, sep) ==
    IF sep \notin Range(s)
    THEN <<s>>
    ELSE LET i == FirstIndex(s, sep)
         IN  <<SubSeq(s, 1, i - 1)>> \o Split(SubSeq(s, i + 1, Len(s)), sep)

\* the list comprehension [x.split(sep) for x in xs]
SplitEach(xs, sep) == [k \in DOMAIN xs |-> Split(xs[k], sep)]

\* ------------------------------------------------- response decoding
\* A cell of the `response` column: a Python str (tag "str", val its
\* characters) or a value that is not a str (tag "raw").
\* A decoded response: tag "list" (val the nested lists), the untouched
\* non-str value (tag "raw"), or tag "error" when decoding raised.
AttributeError == "AttributeError"
ImportError == "ImportError"
DiscoveryError == "DiscoveryError"
HookError == "HookError"
ValueError == "ValueError"

\* a decoder that splits at ';' first and at '/' second
DecodePlainSwapped(s) == [tag |-> "list", val |-> SplitEach(Split(s, ";"), "/")]

\* [x.split(';') for x in response.split('/')]
DecodePlain(s) == [tag |-> "list", val |-> SplitEach(Split(s, "/"), ";")]

\* [y.split(';') for y in [x.split('/') for x in response.split('|')]]:
\* every y is a list, and a list has no attribute split, so the first
\* y.split raises AttributeError; the inner list is never empty.
DecodeMultipleChoice(s) ==
    LET ys == SplitEach(Split(s, "|"), "/")
    IN  IF ys = <<>>
        THEN [tag |-> "list", val |-> <<>>]
        ELSE [tag |-> "error", val |-> <<>>]

\* the isinstance(..., str) guard and the response_type branch
Decode(response, response_type) ==
    IF response.tag = "str"
    THEN IF response_type = "multiple-choice"
         THEN DecodeMultipleChoice(response.val)
         ELSE DecodePlain(response.val)
    ELSE response

\* ------------------------------------------------ pandas operations
IdColumn(data) == [i \in DOMAIN data |-> data[i].id]

WithIds(data, col) == [i \in DOMAIN data |-> [data[i] EXCEPT !.id = col[i]]]

\* the distinct values in ascending order, as numpy.unique returns them
UniqueSorted(col) == SortedSeq(Range(col))

RECURSIVE Unique(_)
\* Series.unique(): the distinct values in order of first occurrence
Unique(col) ==
    IF col = <<>>
    THEN <<>>
    ELSE LET init == Unique(SubSeq(col, 1, Len(col) - 1))
             x == col[Len(col)]
         IN  IF x \in Range(init) THEN init ELSE Append(init, x)

\* dict(zip(ids, range(start, start + len(ids))))
ZipRange(ids, start) ==
    [x \in Range(ids) |-> start + FirstIndex(ids, x) - 1]

RECURSIVE ReplacePairs(_, _, _)
ReplacePairs(col, keys, d) ==
    IF keys = <<>>
    THEN col
    ELSE ReplacePairs(
             [i \in DOMAIN col |-> IF col[i] = keys[1] THEN d[keys[1]] ELSE col[i]],
             Tail(keys), d)

\* a replacement that applies the pairs of the dict one after the other
\* (in insertion order, which is the order of the new ids), each to the
\* outcome of the previous one
ReplaceChained(col, d) ==
    LET new == SortedSeq({d[x] : x \in DOMAIN d})
        keys == [k \in DOMAIN new |-> CHOOSE x \in DOMAIN d : d[x] = new[k]]
    IN  ReplacePairs(col, keys, d)

\* Series.replace(dict): the masks of all keys are taken on the original
\* values before any value is written, so no replaced value is replaced again
Replace(col, d) ==
    [i \in DOMAIN col |-> IF col[i] \in DOMAIN d THEN d[col[i]] ELSE col[i]]

\* groupby('id'): the group keys, in ascending order (sort=True)
GroupKeys(data) == SortedSeq(Range(IdColumn(data)))

\* only the first row of a group
GroupRowsFirst(data, key) ==
    SubSeq(SelectSeq(data, LAMBDA r : r.id = key), 1, 1)

\* the rows of one group, in dataset order
GroupRows(data, key) == SelectSeq(data, LAMBDA r : r.id = key)

\* the rows left in the order of the dataset
SortValuesNone(rows) == rows

RECURSIVE SortValues(_)
\* sort_values('sequence'): ascending by `sequence`, rows of equal
\* sequence in their previous order
SortValues(rows) ==
    IF rows = <<>>
    THEN <<>>
    ELSE LET m == Min({rows[i].sequence : i \in DOMAIN rows})
             k == Min({i \in DOMAIN rows : rows[i].sequence = m})
         IN  <<rows[k]>> \o
             SortValues(SubSeq(rows, 1, k - 1) \o SubSeq(rows, k + 1, Len(rows)))

\* ------------------------------------------------------ input datasets
Domains == {"syllogistic", "propositional"}
ResponseTypes == {"single-choice", "multiple-choice", "verify"}

Str(chars) == [tag |-> "str", val |-> chars]

\* the cells (domain, response_type, response) a dataset row is drawn from
Contents ==
    { [domain |-> "syllogistic", response_type |-> "single-choice",
       response |-> Str(<<"a", ";", "b", "/", "c">>)],
      [domain |-> "syllogistic", response_type |-> "multiple-choice",
       response |-> Str(<<"a", "/", "b", "|", "c">>)],
      [domain |-> "propositional", response_type |-> "verify",
       response |-> [tag |-> "raw", val |-> <<"1">>]],
      [domain |-> "propositional", response_type |-> "single-choice",
       response |-> Str(<<"a", "|", "b", ";", "/">>)] }

PlainContent ==
    [domain |-> "syllogistic", response_type |-> "single-choice",
     response |-> Str(<<"a", ";", "b", "/", "c">>)]

SequenceValues == {1, 2}
TestIds == {1, 2}
TrainIds == {0, 1}

\* row i (0-based index label) of a dataset read by pd.read_csv
Row(i, id, sequence, c) ==
    [index |-> i, id |-> id, sequence |-> sequence, domain |-> c.domain,
     task |-> <<"task", i>>, response_type |-> c.response_type,
     choices |-> "choices", response |-> c.response]

\* the datasets of 1..n rows with ids, sequences and cells from the given sets
Files(n, ids, seqs, cells) ==
    UNION { { [i \in 1..k |-> Row(i - 1, f[i][1], f[i][2], f[i][3])] :
              f \in [1..k -> ids \X seqs \X cells] } : k \in 1..n }

NoFile == [given |-> FALSE, rows |-> <<>>]
File(rows) == [given |-> TRUE, rows |-> rows]

\* ------------------------------------------------------- input models
ModelKinds ==
    { [supported_domains |-> Domains, supported_response_types |-> ResponseTypes,
       fault |-> "none", adapt_mutates |-> FALSE],
      [supported_domains |-> {"syllogistic"}, supported_response_types |-> ResponseTypes,
       fault |-> "none", adapt_mutates |-> FALSE],
      [supported_domains |-> Domains,
       supported_response_types |-> ResponseTypes \ {"multiple-choice"},
       fault |-> "none", adapt_mutates |-> FALSE] }

FullKind ==
    [supported_domains |-> Domains, supported_response_types |-> ResponseTypes,
     fault |-> "none", adapt_mutates |-> FALSE]

\* what can raise for a model file: the import of the file, the discovery
\* of its model class, one of its hooks, or the comparator on what the
\* model predicts
Faults ==
    {"import", "discover", "pre_train", "start_participant", "predict",
     "compare", "adapt"}

\* the model file at position i of the model list
ModelFile(i, kind) ==
    [path |-> <<"models", i, "model.py">>, dir |-> <<"models", i>>,
     name |-> <<"model", i>>,
     supported_domains |-> kind.supported_domains,
     supported_response_types |-> kind.supported_response_types,
     fault |-> kind.fault, adapt_mutates |-> kind.adapt_mutates]

ModelLists ==
    { [i \in 1..NumModels |-> ModelFile(i, ks[i])] : ks \in [1..NumModels -> ModelKinds] }

FullModels == [i \in 1..NumModels |-> ModelFile(i, FullKind)]

\* model lists in which one model file has a fault
FaultyModelLists ==
    { [i \in 1..NumModels |->
          ModelFile(i, IF i = k THEN [FullKind EXCEPT !.fault = f] ELSE FullKind)] :
      k \in 1..NumModels, f \in Faults }

\* models whose adapt() empties the truth list it is given and the
\* prediction list it returned
MutatingModels ==
    [i \in 1..NumModels |-> ModelFile(i, [FullKind EXCEPT !.adapt_mutates = TRUE])]

\* --------------------------------------------------------------- state
VARIABLES
    pc,                  \* position in __init__ / evaluate
    test_datafile,       \* constructor argument: rows of the test file
    train_datafile,      \* constructor argument: NoFile or File(rows)
    corresponding_data,  \* constructor argument
    modellist,           \* self.modellist
    test_data,           \* self.test_data (rows)
    train_data,          \* self.train_data: NoFile (None) or File(rows)
    domains,             \* self.domains
    response_types,      \* self.response_types
    idx,                 \* position in the model list (1-based)
    pre_model,           \* the instance made by importer.instantiate()
    model,               \* the per-subject deep copy
    subjects,            \* group keys of the subject loop still to visit
    subj_id,             \* key of the current subject group
    rows,                \* sorted rows of the current subject still to visit
    row,                 \* the current trial row
    truth,               \* local `truth`
    prediction,          \* local `prediction`
    hit,                 \* local `hit`
    result_data,         \* the list of result rows
    calls,               \* the hook calls made so far, in order
    cwd,                 \* os.getcwd()
    sys_path,            \* sys.path
    old_dir,             \* dir_context's saved directory
    imported,            \* model files currently imported
    imports,             \* the importer's imports and unimports so far, in order
    entered_path,        \* sys.path as dir_context found it when last entered
    error                \* the exception that left evaluate(), if any

vars ==
    <<pc, test_datafile, train_datafile, corresponding_data, modellist,
      test_data, train_data, domains, response_types, idx, pre_model, model,
      subjects, subj_id, rows, row, truth, prediction, hit, result_data,
      calls, cwd, sys_path, old_dir, imported, imports, entered_path, error>>

inputs == <<test_datafile, train_datafile, corresponding_data, modellist>>
self_data == <<test_data, train_data, domains, response_types>>
environment == <<cwd, sys_path, old_dir, imported, imports, entered_path>>
trial_locals == <<row, truth, prediction, hit>>

\* values of variables that hold nothing yet
NoModel ==
    [name |-> <<"model", 0>>, supported_domains |-> {},
     supported_response_types |-> {}, pre_trained |-> FALSE,
     participant |-> {}, adapted |-> <<>>]
NoRow == Row(0, 0, 0, PlainContent)
NoResponse == [tag |-> "raw", val |-> <<>>]

StartDir == <<"work", 0>>
LibDir == <<"lib", 0>>

\* ---------------------------------------------------------------- Init
\* The arguments the Evaluator is constructed with and the search path of
\* the process.  Seven families: test files of every shape without a
\* training file; model lists of every shape on one-row files; training
\* files of every shape under one subject id; id columns of every shape in
\* both files, with and without corresponding_data; a model file with a
\* fault; models whose adapt() mutates its arguments; a search path that
\* holds the directory of a model file already.
InitArgs ==
    \/ /\ test_datafile \in Files(MaxTest, TestIds, SequenceValues, Contents)
       /\ train_datafile = NoFile
       /\ corresponding_data = FALSE
       /\ modellist = FullModels
       /\ sys_path = <<LibDir>>
    \/ /\ test_datafile \in Files(1, {1}, {1}, Contents)
       /\ train_datafile \in
              {NoFile} \cup {File(r) : r \in Files(1, {0}, {1}, Contents)}
       /\ corresponding_data = FALSE
       /\ modellist \in ModelLists
       /\ sys_path = <<LibDir>>
    \/ /\ test_datafile \in Files(1, {1}, {1}, {PlainContent})
       /\ train_datafile \in
              {File(r) : r \in Files(MaxTrain, {0}, SequenceValues, Contents)}
       /\ corresponding_data = FALSE
       /\ modellist = FullModels
       /\ sys_path = <<LibDir>>
    \/ /\ test_datafile \in Files(MaxTest, TestIds, {1}, {PlainContent})
       /\ train_datafile \in
              {File(r) : r \in Files(MaxTrain, TrainIds, {1}, {PlainContent})}
       /\ corresponding_data \in BOOLEAN
       /\ modellist = FullModels
       /\ sys_path = <<LibDir>>
    \/ /\ test_datafile \in Files(1, {1}, {1}, {PlainContent})
       /\ train_datafile \in
              {NoFile} \cup {File(r) : r \in Files(1, {0}, {1}, {PlainContent})}
       /\ corresponding_data = FALSE
       /\ modellist \in FaultyModelLists
       /\ sys_path = <<LibDir>>
    \/ /\ test_datafile \in Files(MaxTest, {1}, SequenceValues, {PlainContent})
       /\ train_datafile = NoFile
       /\ corresponding_data = FALSE
       /\ modellist = MutatingModels
       /\ sys_path = <<LibDir>>
    \/ /\ test_datafile \in Files(1, {1}, {1}, {PlainContent})
       /\ train_datafile = NoFile
       /\ corresponding_data = FALSE
       /\ modellist = FullModels
       /\ sys_path \in {<<FullModels[i].dir, LibDir>> : i \in 1..NumModels}
                       \cup {<<LibDir, FullModels[i].dir>> : i \in 1..NumModels}

Init ==
    /\ InitArgs
    /\ pc = "new"
    /\ test_data = <<>>
    /\ train_data = NoFile
    /\ domains = {}
    /\ response_types = {}
    /\ idx = 0
    /\ pre_model = NoModel
    /\ model = NoModel
    /\ subjects = <<>>
    /\ subj_id = 0
    /\ rows = <<>>
    /\ row = NoRow
    /\ truth = NoResponse
    /\ prediction = NoResponse
    /\ hit = FALSE
    /\ result_data = <<>>
    /\ calls = <<>>
    /\ cwd = StartDir
    /\ old_dir = StartDir
    /\ imported = {}
    /\ imports = <<>>
    /\ entered_path = sys_path
    /\ error = "none"

\* ------------------------------------------------------------ __init__
Column(data, name) == {r[name] : r \in Range(data)}

\* a registry that looks at the test dataset only
RegistryTestOnly(test, train, name) == Column(test, name)

\* self.domains / self.response_types after both update() calls
Registry(test, train, name) ==
    Column(test, name) \cup (IF train.given THEN Column(train.rows, name) ELSE {})

\* lines 57-59: the training ids become 0 .. T-1
RemapTrain(train) ==
    LET train_ids == Unique(IdColumn(train))
        new_train_ids == ZipRange(train_ids, 0)
    IN  WithIds(train, Replace(IdColumn(train), new_train_ids))

\* lines 61-63: the test ids become T .. T+S-1
RemapTest(test, train) ==
    LET train_ids == Unique(IdColumn(train))
        test_ids == Unique(IdColumn(test))
        new_test_ids == ZipRange(test_ids, Len(train_ids))
    IN  WithIds(test, Replace(IdColumn(test), new_test_ids))

\* a guard that ignores corresponding_data
RemapsAlways(train, corresponding) == train.given

\* the guard of the remapping: a training file and not corresponding_data
Remaps(train, corresponding) == train.given /\ ~corresponding

Construct ==
    /\ pc = "new"
    /\ domains' = Registry(test_datafile, train_datafile, "domain")
    /\ response_types' = Registry(test_datafile, train_datafile, "response_type")
    /\ IF Remaps(train_datafile, corresponding_data)
       THEN /\ train_data' = File(RemapTrain(train_datafile.rows))
            /\ test_data' = RemapTest(test_datafile, train_datafile.rows)
       ELSE /\ train_data' = train_datafile
            /\ test_data' = test_datafile
    /\ pc' = "ready"
    /\ UNCHANGED <<inputs, idx, pre_model, model, subjects, subj_id, rows,
                   trial_locals, result_data, calls, environment, error>>

\* ------------------------------------------------------------ evaluate
\* ccobra.data.Item(identifier, domain, task, response_type, choices)
Item(identifier, r) ==
    [identifier |-> identifier, domain |-> r.domain, task |-> r.task,
     response_type |-> r.response_type, choices |-> r.choices]

\* list.remove(x): drops the first occurrence of x
RemoveFirst(s, x) ==
    LET k == FirstIndex(s, x)
    IN  SubSeq(s, 1, k - 1) \o SubSeq(s, k + 1, Len(s))

\* an exception leaves evaluate() from a with-block that has no finally
\* clause
RaiseNoCleanup(exception) ==
    /\ pc' = "raised"
    /\ error' = exception
    /\ UNCHANGED <<cwd, sys_path, old_dir, imported, imports, entered_path>>

\* an exception leaves the with-block: dir_context's finally clause runs
\* and the exception leaves evaluate()
Raise(exception) ==
    /\ pc' = "raised"
    /\ error' = exception
    /\ cwd' = old_dir
    /\ sys_path' = RemoveFirst(sys_path, modellist[idx].dir)
    /\ UNCHANGED <<old_dir, imported, imports, entered_path>>

\* result_data = [] and the first iteration of the model loop is due
Evaluate ==
    /\ pc = "ready"
    /\ result_data' = <<>>
    /\ idx' = 1
    /\ pc' = "for_model"
    /\ UNCHANGED <<inputs, self_data, pre_model, model, subjects, subj_id,
                   rows, trial_locals, calls, environment, error>>

\* lines 92-93 and 14-16: the model's directory becomes the working
\* directory and the last entry of sys.path
EnterContext ==
    /\ pc = "for_model"
    /\ idx <= Len(modellist)
    /\ old_dir' = cwd
    /\ entered_path' = sys_path
    /\ cwd' = modellist[idx].dir
    /\ sys_path' = Append(sys_path, modellist[idx].dir)
    /\ pc' = "load"
    /\ UNCHANGED <<inputs, self_data, idx, pre_model, model, subjects, subj_id,
                   rows, trial_locals, result_data, calls, imported, imports,
                   error>>

\* a load that owns the context itself: the working directory is restored
\* and the entry removed as soon as the model is instantiated
LoadModelScoped ==
    /\ pc = "load"
    /\ imported' = imported \cup {modellist[idx].path}
    /\ imports' = Append(imports, [op |-> "import", m |-> idx, at |-> Len(calls)])
    /\ pre_model' =
           [name |-> modellist[idx].name,
            supported_domains |-> modellist[idx].supported_domains,
            supported_response_types |-> modellist[idx].supported_response_types,
            pre_trained |-> FALSE, participant |-> {}, adapted |-> <<>>]
    /\ cwd' = old_dir
    /\ sys_path' = RemoveFirst(sys_path, modellist[idx].dir)
    /\ pc' = "check"
    /\ UNCHANGED <<inputs, self_data, idx, model, subjects, subj_id, rows,
                   trial_locals, result_data, calls, old_dir, entered_path,
                   error>>

\* lines 94-98: import the model file, find its model class, instantiate
LoadModel ==
    /\ pc = "load"
    /\ IF modellist[idx].fault \in {"import", "discover"}
       THEN /\ Raise(IF modellist[idx].fault = "import"
                     THEN ImportError ELSE DiscoveryError)
            /\ UNCHANGED <<pre_model>>
       ELSE /\ imported' = imported \cup {modellist[idx].path}
            /\ imports' = Append(imports, [op |-> "import", m |-> idx,
                                           at |-> Len(calls)])
            /\ pre_model' =
                   [name |-> modellist[idx].name,
                    supported_domains |-> modellist[idx].supported_domains,
                    supported_response_types |->
                        modellist[idx].supported_response_types,
                    pre_trained |-> FALSE, participant |-> {}, adapted |-> <<>>]
            /\ pc' = "check"
            /\ UNCHANGED <<cwd, sys_path, old_dir, entered_path, error>>
    /\ UNCHANGED <<inputs, self_data, idx, model, subjects, subj_id, rows,
                   trial_locals, result_data, calls>>

\* line 196: the model loop is over, the result table is returned
Return ==
    /\ pc = "for_model"
    /\ idx > Len(modellist)
    /\ pc' = "done"
    /\ UNCHANGED <<inputs, self_data, idx, pre_model, model, subjects, subj_id,
                   rows, trial_locals, result_data, calls, environment, error>>

\* lines 101 and 107
Missing(registry, supported) == registry \ supported

\* lines 100-111: the applicability check
CheckApplicable ==
    /\ pc = "check"
    /\ IF \/ Missing(domains, pre_model.supported_domains) # {}
          \/ Missing(response_types, pre_model.supported_response_types) # {}
       THEN /\ Raise(ValueError)
            /\ UNCHANGED <<subjects>>
       ELSE /\ pc' = "pre_train"
            /\ UNCHANGED <<subjects, environment, error>>
    /\ UNCHANGED <<inputs, self_data, idx, pre_model, model, subj_id, rows,
                   trial_locals, result_data, calls>>

\* lines 119-137: the training record of one row of the group id_info;
\* seq_info is the index label iterrows() yields, and the keys set first
\* (id, sequence, item) are not overwritten by the row's columns
TrainDict(id_info, r) ==
    [id |-> id_info, sequence |-> r.index, item |-> Item(id_info, r),
     domain |-> r.domain, task |-> r.task, response_type |-> r.response_type,
     choices |-> r.choices, response |-> Decode(r.response, r.response_type)]

\* one list per subject group, each in the order of the file
TrainDataDictsUnsorted(train) ==
    LET keys == GroupKeys(train)
    IN  [k \in DOMAIN keys |->
            LET subj_df == GroupRows(train, keys[k])
            IN  [j \in DOMAIN subj_df |-> TrainDict(keys[k], subj_df[j])]]

\* lines 115-138: one list per subject group, each sorted by sequence
TrainDataDicts(train) ==
    LET keys == GroupKeys(train)
    IN  [k \in DOMAIN keys |->
            LET subj_df == SortValues(GroupRows(train, keys[k]))
            IN  [j \in DOMAIN subj_df |-> TrainDict(keys[k], subj_df[j])]]

DecodeFails(dicts) ==
    \E k \in DOMAIN dicts : \E j \in DOMAIN dicts[k] : dicts[k][j].response.tag = "error"

\* lines 113-140: build the training records and call pre_train
PreTrain ==
    /\ pc = "pre_train"
    /\ train_data.given
    /\ LET train_data_dicts == TrainDataDicts(train_data.rows)
       IN  IF DecodeFails(train_data_dicts)
           THEN /\ Raise(AttributeError)
                /\ UNCHANGED <<pre_model, calls, subjects>>
           ELSE IF modellist[idx].fault = "pre_train"
           THEN /\ Raise(HookError)
                /\ UNCHANGED <<pre_model, calls, subjects>>
           ELSE /\ pre_model' = [pre_model EXCEPT !.pre_trained = TRUE]
                /\ calls' = Append(calls, [op |-> "pre_train", m |-> idx,
                                           arg |-> train_data_dicts])
                /\ subjects' = GroupKeys(test_data)
                /\ pc' = "for_subject"
                /\ UNCHANGED <<environment, error>>
    /\ UNCHANGED <<inputs, self_data, idx, model, subj_id, rows, trial_locals,
                   result_data>>

\* line 113 when self.train_data is None
NoPreTrain ==
    /\ pc = "pre_train"
    /\ ~train_data.given
    /\ subjects' = GroupKeys(test_data)
    /\ pc' = "for_subject"
    /\ UNCHANGED <<inputs, self_data, idx, pre_model, model, subj_id, rows,
                   trial_locals, result_data, calls, environment, error>>

\* the subject loop without line 144: the instance of the previous subject
\* of the model is used again
StartSubjectShared ==
    /\ pc = "for_subject"
    /\ subjects # <<>>
    /\ subj_id' = Head(subjects)
    /\ subjects' = Tail(subjects)
    /\ LET instance == IF model.name = pre_model.name THEN model ELSE pre_model
       IN  /\ model' = [instance EXCEPT !.participant = @ \cup {Head(subjects)}]
           /\ calls' = Append(calls, [op |-> "start_participant", m |-> idx,
                                      id |-> Head(subjects),
                                      instance |-> instance])
    /\ rows' = SortValues(GroupRows(test_data, Head(subjects)))
    /\ pc' = "for_trial"
    /\ UNCHANGED <<inputs, self_data, idx, pre_model, trial_locals,
                   result_data, environment, error>>

\* lines 143-152: next subject group: deep copy, start_participant (the
\* datasets carry no demographic column, so demographics is empty), and
\* the group's rows sorted by sequence; the call record keeps the state
\* the instance had when start_participant was called on it
StartSubject ==
    /\ pc = "for_subject"
    /\ subjects # <<>>
    /\ subj_id' = Head(subjects)
    /\ subjects' = Tail(subjects)
    /\ LET instance == pre_model
       IN  IF modellist[idx].fault = "start_participant"
           THEN /\ model' = instance
                /\ Raise(HookError)
                /\ UNCHANGED <<calls, rows>>
           ELSE /\ model' = [instance EXCEPT
                                 !.participant = @ \cup {Head(subjects)}]
                /\ calls' = Append(calls, [op |-> "start_participant",
                                           m |-> idx, id |-> Head(subjects),
                                           instance |-> instance])
                /\ rows' = SortValues(GroupRows(test_data, Head(subjects)))
                /\ pc' = "for_trial"
                /\ UNCHANGED <<environment, error>>
    /\ UNCHANGED <<inputs, self_data, idx, pre_model, trial_locals,
                   result_data>>

\* the end of the model loop body without lines 192-194: the context is
\* left and the next model is due, the model file stays imported
UnimportSkipped ==
    /\ pc = "for_subject"
    /\ subjects = <<>>
    /\ cwd' = old_dir
    /\ sys_path' = RemoveFirst(sys_path, modellist[idx].dir)
    /\ idx' = idx + 1
    /\ pc' = "for_model"
    /\ UNCHANGED <<inputs, self_data, pre_model, model, subjects, subj_id,
                   rows, trial_locals, result_data, calls, old_dir, imported,
                   imports, entered_path, error>>

\* lines 192-194 and the end of the with-block: unimport, leave the
\* context, next model
Unimport ==
    /\ pc = "for_subject"
    /\ subjects = <<>>
    /\ imported' = imported \ {modellist[idx].path}
    /\ imports' = Append(imports, [op |-> "unimport", m |-> idx,
                                   at |-> Len(calls)])
    /\ cwd' = old_dir
    /\ sys_path' = RemoveFirst(sys_path, modellist[idx].dir)
    /\ idx' = idx + 1
    /\ pc' = "for_model"
    /\ UNCHANGED <<inputs, self_data, pre_model, model, subjects, subj_id,
                   rows, trial_locals, result_data, calls, old_dir,
                   entered_path, error>>

\* model.predict of the models of the model list: the truth adapted to
\* last, or a fixed response before the first adapt
ModelPredict(m, item) ==
    IF m.adapted = <<>>
    THEN [tag |-> "list", val |-> << << <<"a">> >> >>]
    ELSE m.adapted[Len(m.adapted)]

\* lines 152-172: next trial row: decode the truth, build the item, predict
Predict ==
    /\ pc = "for_trial"
    /\ rows # <<>>
    /\ row' = Head(rows)
    /\ rows' = Tail(rows)
    /\ LET decoded == Decode(Head(rows).response, Head(rows).response_type)
       IN  IF decoded.tag = "error"
           THEN /\ Raise(AttributeError)
                /\ UNCHANGED <<truth, prediction, calls>>
           ELSE IF modellist[idx].fault = "predict"
           THEN /\ truth' = decoded
                /\ Raise(HookError)
                /\ UNCHANGED <<prediction, calls>>
           ELSE /\ truth' = decoded
                /\ prediction' = ModelPredict(model, Item(subj_id, Head(rows)))
                /\ calls' = Append(calls, [op |-> "predict", m |-> idx,
                                           id |-> subj_id,
                                           sequence |-> Head(rows).sequence,
                                           item |-> Item(subj_id, Head(rows))])
                /\ pc' = "predicted"
                /\ UNCHANGED <<environment, error>>
    /\ UNCHANGED <<inputs, self_data, idx, pre_model, model, subjects, subj_id,
                   hit, result_data>>

\* line 152 when the subject's rows are exhausted
EndSubject ==
    /\ pc = "for_trial"
    /\ rows = <<>>
    /\ pc' = "for_subject"
    /\ UNCHANGED <<inputs, self_data, idx, pre_model, model, subjects, subj_id,
                   rows, trial_locals, result_data, calls, environment, error>>

\* comparator.compare: whether prediction and truth are the same response
ComparatorCompare(p, t) == p.tag = t.tag /\ p.val = t.val

\* line 173; the call record keeps the two values as they were compared
Compare ==
    /\ pc = "predicted"
    /\ IF modellist[idx].fault = "compare"
       THEN /\ Raise(HookError)
            /\ UNCHANGED <<hit, calls>>
       ELSE /\ hit' = ComparatorCompare(prediction, truth)
            /\ calls' = Append(calls, [op |-> "compare", m |-> idx,
                                       id |-> subj_id,
                                       sequence |-> row.sequence,
                                       prediction |-> prediction,
                                       truth |-> truth])
            /\ pc' = "compared"
            /\ UNCHANGED <<environment, error>>
    /\ UNCHANGED <<inputs, self_data, idx, pre_model, model, subjects, subj_id,
                   rows, row, truth, prediction, result_data>>

\* the trial loop without lines 175-178: adapt is not called
AdaptSkipped ==
    /\ pc = "compared"
    /\ pc' = "adapted"
    /\ UNCHANGED <<inputs, self_data, idx, pre_model, model, subjects, subj_id,
                   rows, trial_locals, result_data, calls, environment, error>>

\* list.clear() on a decoded response; other values cannot be changed in
\* place
Cleared(response) ==
    IF response.tag = "list" THEN [tag |-> "list", val |-> <<>>] ELSE response

\* lines 176-178; `truth` and `prediction` are the objects the model was
\* given and returned, so a model that empties them in adapt() changes
\* what the two locals hold, and what it keeps of the truth
Adapt ==
    /\ pc = "compared"
    /\ IF modellist[idx].fault = "adapt"
       THEN /\ Raise(HookError)
            /\ UNCHANGED <<model, calls, truth, prediction>>
       ELSE /\ calls' = Append(calls, [op |-> "adapt", m |-> idx,
                                       id |-> subj_id,
                                       sequence |-> row.sequence,
                                       item |-> Item(subj_id, row),
                                       truth |-> truth])
            /\ IF modellist[idx].adapt_mutates
               THEN /\ truth' = Cleared(truth)
                    /\ prediction' = Cleared(prediction)
                    /\ model' = [model EXCEPT
                                     !.adapted = Append(@, Cleared(truth))]
               ELSE /\ model' = [model EXCEPT !.adapted = Append(@, truth)]
                    /\ UNCHANGED <<truth, prediction>>
            /\ pc' = "adapted"
            /\ UNCHANGED <<environment, error>>
    /\ UNCHANGED <<inputs, self_data, idx, pre_model, subjects, subj_id, rows,
                   row, hit, result_data>>

RECURSIVE Join(_, _)
\* sep.join(parts) on character sequences
Join(parts, sep) ==
    IF parts = <<>> THEN <<>>
    ELSE IF Len(parts) = 1 THEN parts[1]
    ELSE parts[1] \o <<sep>> \o Join(Tail(parts), sep)

\* comparator.tuple_to_string: the tokens of a sub-response joined by ';',
\* the sub-responses joined by '/'
TupleToString(p) ==
    IF p.tag = "list"
    THEN Join([k \in DOMAIN p.val |-> Join(p.val[k], ";")], "/")
    ELSE p.val

\* a result row put in front of the table instead of at its end
AppendResultFront ==
    /\ pc = "adapted"
    /\ result_data' =
           <<[model |-> model.name, id |-> subj_id, domain |-> row.domain,
              sequence |-> row.sequence, task |-> row.task,
              choices |-> row.choices, truth |-> truth,
              prediction |-> TupleToString(prediction), hit |-> hit]>>
           \o result_data
    /\ pc' = "for_trial"
    /\ UNCHANGED <<inputs, self_data, idx, pre_model, model, subjects, subj_id,
                   rows, trial_locals, calls, environment, error>>

\* lines 180-190
AppendResult ==
    /\ pc = "adapted"
    /\ result_data' = Append(result_data,
           [model |-> model.name, id |-> subj_id, domain |-> row.domain,
            sequence |-> row.sequence, task |-> row.task,
            choices |-> row.choices, truth |-> truth,
            prediction |-> TupleToString(prediction), hit |-> hit])
    /\ pc' = "for_trial"
    /\ UNCHANGED <<inputs, self_data, idx, pre_model, model, subjects, subj_id,
                   rows, trial_locals, calls, environment, error>>

Next ==
    \/ Construct
    \/ Evaluate
    \/ EnterContext
    \/ LoadModel
    \/ Return
    \/ CheckApplicable
    \/ PreTrain
    \/ NoPreTrain
    \/ StartSubject
    \/ Unimport
    \/ Predict
    \/ EndSubject
    \/ Compare
    \/ Adapt
    \/ AppendResult

Spec == Init /\ [][Next]_vars

\* ------------------------------------------------------ claim helpers
\* the values of a column in the files the Evaluator was constructed with
Observed(name) ==
    {r[name] : r \in Range(test_datafile)} \cup
    {r[name] : r \in Range(train_datafile.rows)}

\* the model at position m of the model list lacks an observed domain or
\* response type
NotApplicable(m) ==
    \/ Observed("domain") \ modellist[m].supported_domains # {}
    \/ Observed("response_type") \ modellist[m].supported_response_types # {}

\* positions of the result rows of the model at position m
RowsOf(m) == {k \in DOMAIN result_data : result_data[k].model = modellist[m].name}

\* positions of the hook calls made for the model at position m
CallsOf(m) == {k \in DOMAIN calls : calls[k].m = m}

PredictCall(k, m, id) ==
    calls[k].op = "predict" /\ calls[k].m = m /\ calls[k].id = id

\* --------------------------------------------------------------- C1
\* C1: for every model and every subject, the predict calls are made in
\* ascending order of `sequence`: of two predict calls of one model for one
\* subject with sequence values s1 < s2, the one for s1 is the earlier,
\* and when a trial is predicted every trial of the subject with a smaller
\* sequence value has been predicted before.
C1_TrialsInSequenceOrder ==
    /\ \A i, j \in DOMAIN calls :
           ( /\ calls[i].op = "predict"
             /\ PredictCall(j, calls[i].m, calls[i].id)
             /\ calls[i].sequence < calls[j].sequence ) => i < j
    /\ \A j \in DOMAIN calls : \A r \in Range(test_data) :
           ( /\ calls[j].op = "predict"
             /\ r.id = calls[j].id
             /\ r.sequence < calls[j].sequence )
           => \E i \in 1..(j - 1) :
                  /\ PredictCall(i, calls[j].m, calls[j].id)
                  /\ calls[i].sequence = r.sequence

\* a subject stored with sequence 2 before sequence 1 has had both trials
\* predicted
C1_Witness ==
    \E a, b \in DOMAIN test_datafile :
        /\ a < b
        /\ test_datafile[a].id = test_datafile[b].id
        /\ test_datafile[a].sequence = 2
        /\ test_datafile[b].sequence = 1
        /\ \E i, j \in DOMAIN calls :
               /\ PredictCall(i, 1, test_data[a].id) /\ calls[i].sequence = 1
               /\ PredictCall(j, 1, test_data[a].id) /\ calls[j].sequence = 2

\* --------------------------------------------------------------- C2
\* C2: a model that does not declare a domain or response type observed
\* in the test file or the training file gets no hook call and no result
\* row, and evaluation does not get past it: it ends in the ValueError of
\* the applicability check.
C2_InapplicableModelFailsFirst ==
    \A m \in DOMAIN modellist :
        NotApplicable(m) =>
            /\ CallsOf(m) = {}
            /\ RowsOf(m) = {}
            /\ idx <= m
            /\ idx = m => pc \in {"for_model", "load", "check", "raised"}
            /\ (idx = m /\ pc = "raised") => error = ValueError

\* the check has failed on a value that only the training file holds
C2_Witness ==
    /\ pc = "raised"
    /\ error = ValueError
    /\ train_datafile.given
    /\ {r.domain : r \in Range(test_datafile)} \subseteq modellist[idx].supported_domains
    /\ {r.response_type : r \in Range(test_datafile)}
           \subseteq modellist[idx].supported_response_types

\* --------------------------------------------------------------- C3
\* C3: an applicability failure of one model does not abort evaluation:
\* evaluate() does not end in the applicability error, and the table it
\* returns holds the rows of every applicable model and no row of an
\* inapplicable one.
C3_LaterModelsStillEvaluated ==
    /\ ~(pc = "raised" /\ error = ValueError)
    /\ pc = "done" =>
           \A m \in DOMAIN modellist :
               IF NotApplicable(m)
               THEN RowsOf(m) = {}
               ELSE Cardinality(RowsOf(m)) = Len(test_data)

\* ------------------------------------------------- C4, C5, C6: ids
\* __init__ has run on a training file with corresponding_data false
Reconciled == pc # "new" /\ train_datafile.given /\ ~corresponding_data

\* two columns of equal length group their rows alike
SameGrouping(old, new) ==
    \A i, j \in DOMAIN old : (new[i] = new[j]) <=> (old[i] = old[j])

\* the number of distinct values that occur in col before the first
\* occurrence of col[i]
Rank(col, i) == Cardinality({col[j] : j \in 1..(FirstIndex(col, col[i]) - 1)})

Distinct(col) == Cardinality(Range(col))

\* C4: after construction on non-corresponding data the training ids and
\* the test ids are disjoint, and on each dataset two records share the
\* new id exactly when they shared the original id.
C4_RemappedIdsDisjointBijective ==
    Reconciled =>
        /\ Range(IdColumn(train_data.rows)) \cap Range(IdColumn(test_data)) = {}
        /\ Len(train_data.rows) = Len(train_datafile.rows)
        /\ Len(test_data) = Len(test_datafile)
        /\ SameGrouping(IdColumn(train_datafile.rows), IdColumn(train_data.rows))
        /\ SameGrouping(IdColumn(test_datafile), IdColumn(test_data))

\* both files held the same id, and both held ids of their target range
\* that belong to another subject (training ids 1, 0 and test ids 2, 1
\* after one training subject)
C4_Witness ==
    /\ Reconciled
    /\ Range(IdColumn(train_datafile.rows)) \cap Range(IdColumn(test_datafile)) # {}
    /\ \/ IdColumn(train_datafile.rows) = <<1, 0>>
       \/ /\ Distinct(IdColumn(train_datafile.rows)) = 1
          /\ IdColumn(test_datafile) = <<2, 1>>

\* C5: on non-corresponding data the k-th distinct training id in
\* first-occurrence order becomes k and the k-th distinct test id becomes
\* T + k, so the training ids are exactly 0 .. T-1 and the test ids
\* exactly T .. T+S-1.
C5_DenseRangesInFirstOccurrenceOrder ==
    Reconciled =>
        LET old_train == IdColumn(train_datafile.rows)
            old_test == IdColumn(test_datafile)
            T == Distinct(old_train)
            S == Distinct(old_test)
        IN  /\ DOMAIN train_data.rows = DOMAIN old_train
            /\ DOMAIN test_data = DOMAIN old_test
            /\ \A i \in DOMAIN old_train : train_data.rows[i].id = Rank(old_train, i)
            /\ \A i \in DOMAIN old_test : test_data[i].id = T + Rank(old_test, i)
            /\ Range(IdColumn(train_data.rows)) = 0..(T - 1)
            /\ Range(IdColumn(test_data)) = T..(T + S - 1)

\* two training subjects and two test subjects, each file holding the
\* larger original id first
C5_Witness ==
    /\ Reconciled
    /\ IdColumn(train_datafile.rows) = <<1, 0>>
    /\ IdColumn(test_datafile) = <<2, 1>>
    /\ IdColumn(train_data.rows) = <<0, 1>>
    /\ IdColumn(test_data) = <<2, 3>>

\* the row of the test file a result row was made from (tasks are unique
\* within a file)
SourceRow(k) ==
    CHOOSE i \in DOMAIN test_datafile : test_datafile[i].task = result_data[k].task

\* C6: without a training file, or with corresponding_data true, the
\* constructor leaves the id columns as they were and every result row
\* carries the original id of its test record.
C6_IdsUntouched ==
    (pc # "new" /\ (~train_datafile.given \/ corresponding_data)) =>
        /\ test_data = test_datafile
        /\ train_data = train_datafile
        /\ \A k \in DOMAIN result_data :
               result_data[k].id = test_datafile[SourceRow(k)].id

\* a run on corresponding data whose ids would not have survived the
\* remapping has produced all its rows
C6_Witness ==
    /\ pc = "done"
    /\ train_datafile.given
    /\ corresponding_data
    /\ result_data # <<>>
    /\ IdColumn(test_datafile) = <<2, 1>>
    /\ \A k \in DOMAIN result_data : result_data[k].id \in {1, 2}

\* --------------------------------------------------------------- C7
\* C7: when evaluate() completes the table holds exactly one row for
\* every pair of a model and a test record (number of models times number
\* of test records), each carrying the sequence, domain and id of its
\* record, and two rows of one model share their id exactly when their
\* records shared the original id.
C7_OneRowPerModelAndRecord ==
    pc = "done" =>
        /\ Len(result_data) = Len(modellist) * Len(test_datafile)
        /\ \A m \in DOMAIN modellist : \A i \in DOMAIN test_datafile :
               LET ks == {k \in RowsOf(m) : result_data[k].task = test_datafile[i].task}
               IN  /\ Cardinality(ks) = 1
                   /\ \A k \in ks :
                          /\ result_data[k].sequence = test_datafile[i].sequence
                          /\ result_data[k].domain = test_datafile[i].domain
                          /\ result_data[k].id = test_data[i].id
        /\ \A m \in DOMAIN modellist : \A k1, k2 \in RowsOf(m) :
               (result_data[k1].id = result_data[k2].id)
                   <=> (test_datafile[SourceRow(k1)].id = test_datafile[SourceRow(k2)].id)

\* a completed run whose two files shared an id and were remapped, with
\* two records of one subject in the test file
C7_Witness ==
    /\ pc = "done"
    /\ Reconciled
    /\ Range(IdColumn(train_datafile.rows)) \cap Range(IdColumn(test_datafile)) # {}
    /\ Len(test_datafile) = MaxTest
    /\ Distinct(IdColumn(test_datafile)) < Len(test_datafile)
    /\ Len(result_data) = NumModels * MaxTest

\* --------------------------------------------------------------- C8
\* position of the model a result row names
ModelOf(k) == CHOOSE m \in DOMAIN modellist : modellist[m].name = result_data[k].model

\* position in the call log of the start_participant call of a row's subject
VisitOf(k) ==
    CHOOSE c \in DOMAIN calls :
        /\ calls[c].op = "start_participant"
        /\ calls[c].m = ModelOf(k)
        /\ calls[c].id = result_data[k].id

RowOrder ==
    \A k1, k2 \in DOMAIN result_data :
        k1 < k2 =>
            /\ ModelOf(k1) <= ModelOf(k2)
            /\ ModelOf(k1) = ModelOf(k2) => VisitOf(k1) <= VisitOf(k2)
            /\ (ModelOf(k1) = ModelOf(k2) /\ result_data[k1].id = result_data[k2].id)
                   => result_data[k1].sequence <= result_data[k2].sequence

AppendOnly ==
    /\ Len(result_data') >= Len(result_data)
    /\ SubSeq(result_data', 1, Len(result_data)) = result_data

\* C8: the result rows are in model-list order, then in the order in
\* which the subjects were started, then in ascending sequence, and every
\* step leaves the rows already in the table in place and unchanged.
C8_RowOrderAppendOnly == [](RowOrder) /\ [][AppendOnly]_vars

\* a completed run of two models over two subjects
C8_Witness ==
    /\ pc = "done"
    /\ Len(result_data) >= 4
    /\ Cardinality({result_data[k].id : k \in DOMAIN result_data}) >= 2
    /\ Cardinality({result_data[k].model : k \in DOMAIN result_data}) >= 2

\* ---------------------------------------------------------- C9, C10
\* val is the two-level split of the string chars: joining the tokens by
\* ';' and the sub-responses by '/' gives chars back, no token holds a
\* separator, and there is at least one sub-response with one token
IsPlainSplit(chars, val) ==
    /\ Len(val) >= 1
    /\ \A k \in DOMAIN val :
           /\ Len(val[k]) >= 1
           /\ \A j \in DOMAIN val[k] : Range(val[k][j]) \cap {"/", ";"} = {}
    /\ Join([k \in DOMAIN val |-> Join(val[k], ";")], "/") = chars

\* "a;b/c" and [["a","b"],["c"]]; a token is the sequence of its characters
PlainExample == <<"a", ";", "b", "/", "c">>
PlainExampleDecoded == << <<<<"a">>, <<"b">>>>, <<<<"c">>>> >>

PlainString(r) == r.response.tag = "str" /\ r.response_type # "multiple-choice"

\* the decoded response d of the record r is its two-level split
PlainDecoded(r, d) ==
    /\ d.tag = "list"
    /\ IsPlainSplit(r.response.val, d.val)
    /\ r.response.val = PlainExample => d.val = PlainExampleDecoded

\* the row of the training data a training record was made from
TrainSource(d) == CHOOSE r \in Range(train_data.rows) : r.task = d.task

\* the row of the test data a trial's item was made from
TestSource(item) == CHOOSE r \in Range(test_data) : r.task = item.task

\* C9: a string response of a response type other than multiple-choice
\* is decoded by splitting at '/' and each part at ';' ("a;b/c" gives
\* [["a","b"],["c"]]): the truth of the current trial when it is predicted
\* and compared, the truth every adapt call is given, and the response of
\* every training record given to pre_train.
C9_PlainResponseDecoded ==
    /\ (pc \in {"predicted", "compared"} /\ PlainString(row))
           => PlainDecoded(row, truth)
    /\ \A c \in DOMAIN calls :
           (calls[c].op = "adapt" /\ PlainString(TestSource(calls[c].item)))
               => PlainDecoded(TestSource(calls[c].item), calls[c].truth)
    /\ \A c \in DOMAIN calls :
           calls[c].op = "pre_train" =>
               \A s \in DOMAIN calls[c].arg : \A j \in DOMAIN calls[c].arg[s] :
                   LET d == calls[c].arg[s][j]
                   IN  PlainString(TrainSource(d)) => PlainDecoded(TrainSource(d), d.response)

\* "a;b/c" was decoded both in a training record and in a result row
C9_Witness ==
    /\ \E k \in DOMAIN result_data :
           /\ test_datafile[SourceRow(k)].response = Str(PlainExample)
           /\ result_data[k].truth.tag = "list"
           /\ result_data[k].truth.val = PlainExampleDecoded
    /\ \E c \in DOMAIN calls :
           /\ calls[c].op = "pre_train"
           /\ \E s \in DOMAIN calls[c].arg : \E j \in DOMAIN calls[c].arg[s] :
                  /\ TrainSource(calls[c].arg[s][j]).response = Str(PlainExample)
                  /\ calls[c].arg[s][j].response.tag = "list"
                  /\ calls[c].arg[s][j].response.val = PlainExampleDecoded

\* the three-level split: at '|', each part at '/', each of those at ';'
NestedSplit(chars) ==
    LET parts == Split(chars, "|")
    IN  [k \in DOMAIN parts |-> SplitEach(Split(parts[k], "/"), ";")]

MultipleChoiceString(r) ==
    r.response.tag = "str" /\ r.response_type = "multiple-choice"

\* C10: a string response of response type multiple-choice is decoded by
\* splitting at '|', then at '/', then at ';' ("a/b|c" gives
\* [[["a"],["b"]],[["c"]]]), and the trial or training record carrying it
\* is processed without failure.
C10_MultipleChoiceDecoded ==
    /\ error # AttributeError
    /\ (pc \in {"predicted", "compared", "adapted"} /\ MultipleChoiceString(row))
           => (truth.tag = "list" /\ truth.val = NestedSplit(row.response.val))
    /\ \A k \in DOMAIN result_data :
           MultipleChoiceString(test_datafile[SourceRow(k)])
               => /\ result_data[k].truth.tag = "list"
                  /\ result_data[k].truth.val =
                         NestedSplit(test_datafile[SourceRow(k)].response.val)

\* -------------------------------------------------------------- C11
\* the state importer.instantiate() gives the model at position m, after
\* pre_train when a training dataset was given
PreModelState(m) ==
    [name |-> modellist[m].name,
     supported_domains |-> modellist[m].supported_domains,
     supported_response_types |-> modellist[m].supported_response_types,
     pre_trained |-> train_data.given, participant |-> {}, adapted |-> <<>>]

\* C11: at every start_participant call the instance the call is made on
\* has the state of the pre-model after pre-training (after instantiation
\* without training data), whatever was predicted and adapted for earlier
\* subjects; for the model under evaluation that state is the one
\* pre_model still has, and no participant was ever started on and no
\* truth ever adapted to the pre-model itself.
C11_SubjectsStartFromPreModel ==
    /\ \A k \in DOMAIN calls :
           calls[k].op = "start_participant" =>
               /\ calls[k].instance = PreModelState(calls[k].m)
               /\ (calls[k].m = idx => calls[k].instance = pre_model)
    /\ pre_model.participant = {}
    /\ pre_model.adapted = <<>>

\* a second subject of a model is started after a truth was adapted to
\* for an earlier subject of that model
C11_Witness ==
    \E i, j \in DOMAIN calls :
        /\ i < j
        /\ calls[i].op = "adapt"
        /\ calls[j].op = "start_participant"
        /\ calls[j].m = calls[i].m
        /\ calls[j].id # calls[i].id

\* -------------------------------------------------------------- C12
\* evaluate() is not inside a with dir_context(...) block
Outside == pc \in {"new", "ready", "for_model", "done", "raised"}

\* how often x is an entry of the list s
Occurrences(s, x) == Cardinality({k \in DOMAIN s : s[k] = x})

\* C12: whenever the block run inside dir_context has ended, by reaching
\* its end or by an exception (of the import, the model discovery, the
\* applicability check, the decoding or a hook), the working directory is
\* the one that was current before the block was entered, and the entry
\* appended on entry is gone: every directory is on the search path as
\* often as it was on entry.
C12_ContextReleasedOnEveryExit ==
    Outside =>
        /\ cwd = old_dir
        /\ cwd = StartDir
        /\ Len(sys_path) = Len(entered_path)
        /\ \A d \in Range(sys_path) \cup Range(entered_path) :
               Occurrences(sys_path, d) = Occurrences(entered_path, d)

\* a hook has raised after the second model was loaded and other hooks
\* of it had returned
C12_Witness ==
    /\ pc = "raised"
    /\ error = HookError
    /\ idx > 1
    /\ CallsOf(idx) # {}
    /\ cwd = StartDir
    /\ modellist[idx].dir \notin Range(sys_path)

\* -------------------------------------------------------------- C13
\* positions of the adapt calls made for the model at position m
AdaptCallsOf(m) == {c \in CallsOf(m) : calls[c].op = "adapt"}

\* C13: at most one model file is imported at any time; the importer's
\* events are import 1, unimport 1, import 2, unimport 2, ... in this
\* order, so that model i is unloaded before model i+1 is loaded; when a
\* model is unloaded every subject of the test data was processed for it
\* and all its hook calls, the last adapt included, have been made; and
\* when evaluate() completes every model was loaded once and unloaded
\* once and none is left imported.
C13_UnloadBeforeNextLoad ==
    /\ Cardinality(imported) <= 1
    /\ \A k \in DOMAIN imports :
           /\ imports[k].m = (k + 1) \div 2
           /\ imports[k].op = (IF k % 2 = 1 THEN "import" ELSE "unimport")
           /\ imports[k].op = "unimport" =>
                  /\ \A c \in CallsOf(imports[k].m) : c <= imports[k].at
                  /\ Cardinality(AdaptCallsOf(imports[k].m)) = Len(test_data)
                  /\ imports[k - 1].at <= imports[k].at
           /\ (imports[k].op = "import" /\ k > 1) =>
                  imports[k].at = imports[k - 1].at
    /\ pc = "done" =>
           /\ Len(imports) = 2 * Len(modellist)
           /\ imported = {}

\* evaluate() has completed, and the first model was unloaded after an
\* adapt call of it and before the second was loaded and called
C13_Witness ==
    /\ pc = "done"
    /\ Len(imports) >= 4
    /\ \E c \in AdaptCallsOf(1) : c <= imports[2].at
    /\ \E c \in AdaptCallsOf(2) : c > imports[3].at

\* -------------------------------------------------------------- C14
\* positions of the calls of hook op made for model m and subject id
SubjectCalls(op, m, id) ==
    {c \in DOMAIN calls : calls[c].op = op /\ calls[c].m = m /\ calls[c].id = id}

\* positions of the calls of hook op made for model m on the trial of task
TrialCalls(op, m, task) ==
    {c \in DOMAIN calls :
        calls[c].op = op /\ calls[c].m = m /\ calls[c].item.task = task}

\* the rows of the current subject
SubjectRows == {r \in Range(test_data) : r.id = subj_id}

\* C14: in the call log a compare call directly follows the predict call
\* of its trial and an adapt call directly follows the compare call of its
\* trial, and a predict call directly follows the start_participant call
\* of its subject or the adapt call of the subject's previous trial; no
\* trial is predicted or adapted to twice for a model, and when
\* evaluate() completes every trial was predicted, compared and adapted to
\* once for every model.  When the k-th trial of a subject has been
\* predicted, the subject's instance has had start_participant once, its
\* adapt calls are those of the k-1 trials visited before, and none of
\* them is for the current or a later trial.
C14_PredictCompareAdaptPerTrial ==
    /\ \A c \in DOMAIN calls :
           /\ calls[c].op = "predict" =>
                  /\ c > 1
                  /\ calls[c - 1].op \in {"start_participant", "adapt"}
                  /\ calls[c - 1].m = calls[c].m
                  /\ calls[c - 1].id = calls[c].id
                  /\ Cardinality(TrialCalls("predict", calls[c].m,
                                            calls[c].item.task)) = 1
           /\ calls[c].op = "compare" =>
                  /\ calls[c - 1].op = "predict"
                  /\ calls[c - 1].m = calls[c].m
                  /\ calls[c - 1].id = calls[c].id
                  /\ calls[c - 1].sequence = calls[c].sequence
           /\ calls[c].op = "adapt" =>
                  /\ calls[c - 1].op = "compare"
                  /\ calls[c - 1].m = calls[c].m
                  /\ calls[c - 1].id = calls[c].id
                  /\ calls[c - 2].item = calls[c].item
                  /\ Cardinality(TrialCalls("adapt", calls[c].m,
                                            calls[c].item.task)) = 1
    /\ pc = "done" =>
           \A m \in DOMAIN modellist : \A r \in Range(test_data) :
               /\ Cardinality(TrialCalls("predict", m, r.task)) = 1
               /\ Cardinality(TrialCalls("adapt", m, r.task)) = 1
               /\ Cardinality({c \in CallsOf(m) : calls[c].op = "compare"})
                      = Len(test_data)
    /\ pc = "predicted" =>
           /\ model.participant = {subj_id}
           /\ Cardinality(SubjectCalls("start_participant", idx, subj_id)) = 1
           /\ Len(model.adapted)
                  = Cardinality(SubjectCalls("adapt", idx, subj_id))
           /\ Len(model.adapted) = Cardinality(SubjectRows) - Len(rows) - 1
           /\ \A c \in SubjectCalls("adapt", idx, subj_id) :
                  /\ calls[c].item.task # row.task
                  /\ \A k \in DOMAIN rows : calls[c].item.task # rows[k].task

\* the second trial of a subject has been predicted after the adapt call
\* of the first
C14_Witness ==
    /\ pc = "predicted"
    /\ Len(model.adapted) = 1
    /\ calls[Len(calls)].op = "predict"
    /\ calls[Len(calls) - 1].op = "adapt"
    /\ calls[Len(calls) - 1].id = subj_id

\* -------------------------------------------------------------- C15
\* positions of the pre_train calls made for the model at position m
PreTrainCalls(m) == {c \in CallsOf(m) : calls[c].op = "pre_train"}

\* the positions (list, place) of the records of a pre_train argument
Places(arg) ==
    {q \in (DOMAIN arg) \X (1..Len(train_data.rows)) : q[2] \in DOMAIN arg[q[1]]}

\* arg holds one list per subject of the training data, the records of a
\* list are those of one subject in ascending order of the sequence
\* column, and every row of the training data has exactly one record
TrainingArgument(arg) ==
    /\ Len(arg) = Cardinality({r.id : r \in Range(train_data.rows)})
    /\ \A k \in DOMAIN arg :
           /\ arg[k] # <<>>
           /\ \A j \in DOMAIN arg[k] :
                  /\ arg[k][j].id = arg[k][1].id
                  /\ TrainSource(arg[k][j]).id = arg[k][j].id
           /\ \A i, j \in DOMAIN arg[k] :
                  i < j => TrainSource(arg[k][i]).sequence
                               <= TrainSource(arg[k][j]).sequence
           /\ \A l \in DOMAIN arg : l # k => arg[l][1].id # arg[k][1].id
    /\ \A r \in Range(train_data.rows) :
           Cardinality({q \in Places(arg) : arg[q[1]][q[2]].task = r.task}) = 1
    /\ Cardinality(Places(arg)) = Len(train_data.rows)

\* evaluate() is in the subject loop of the model at position idx
InSubjectLoop == pc \in {"for_subject", "for_trial", "predicted", "compared", "adapted"}

\* C15: pre_train is called at most once for a model and never without a
\* training dataset; with one, a model that passed the applicability
\* check gets the call before its first subject is copied and started
\* (so exactly once by the time its subject loop runs, and once for every
\* model when evaluate() completes); the argument is one list per
\* training subject, each list in ascending order of the sequence
\* column, the lists together holding every training row exactly once.
C15_PreTrainOnceBeforeSubjects ==
    /\ \A m \in DOMAIN modellist :
           /\ Cardinality(PreTrainCalls(m)) <= 1
           /\ ~train_data.given => PreTrainCalls(m) = {}
           /\ PreTrainCalls(m) # {} => ~NotApplicable(m)
           /\ (pc = "done" /\ train_data.given) =>
                  Cardinality(PreTrainCalls(m)) = 1
    /\ (InSubjectLoop /\ train_data.given) =>
           /\ Cardinality(PreTrainCalls(idx)) = 1
           /\ pre_model.pre_trained
    /\ \A c \in DOMAIN calls :
           /\ (calls[c].op = "start_participant" /\ train_data.given) =>
                  \E p \in PreTrainCalls(calls[c].m) : p < c
           /\ calls[c].op = "start_participant" =>
                  calls[c].instance.pre_trained = train_data.given
           /\ calls[c].op = "pre_train" => TrainingArgument(calls[c].arg)

\* pre_train was called with a list that the sort put in another order
\* than the file, and a subject was started after it
C15_Witness ==
    /\ InSubjectLoop
    /\ calls # <<>>
    /\ calls[1].op = "pre_train"
    /\ calls[1].arg # TrainDataDictsUnsorted(train_data.rows)
    /\ calls[Len(calls)].op = "start_participant"

\* -------------------------------------------------------------- C16
\* C16: a model that was loaded is unloaded on every exit path of its
\* evaluation: once evaluate() has ended, by returning or by an exception
\* of the applicability check, the decoding, a hook or the comparator, no
\* model file is left imported and every import has its unimport.
C16_UnloadedOnEveryExit ==
    pc \in {"done", "raised"} =>
        /\ imported = {}
        /\ \A k \in DOMAIN imports :
               imports[k].op = "import" =>
                   \E l \in DOMAIN imports :
                       /\ l > k
                       /\ imports[l].op = "unimport"
                       /\ imports[l].m = imports[k].m

\* -------------------------------------------------------------- C17
\* the model at position idx is loaded and evaluate() is at or past its
\* applicability check
Loaded == pc \in {"check", "pre_train"} \/ InSubjectLoop

C18_TrainingRecordFields ==
    \A c \in DOMAIN calls :
        calls[c].op = "pre_train" =>
            \A q \in Places(calls[c].arg) :
                LET d == calls[c].arg[q[1]][q[2]]
                    r == TrainSource(d)
                IN  /\ d.id = r.id
                    /\ d.sequence = r.sequence
                    /\ d.item = Item(r.id, r)
                    /\ d.domain = r.domain
                    /\ d.task = r.task
                    /\ d.response_type = r.response_type
                    /\ d.choices = r.choices

\* -------------------------------------------------------------- C19
\* positions of the compare calls
CompareCalls == {c \in DOMAIN calls : calls[c].op = "compare"}

\* the compare call of the k-th result row: the k-th compare call made
ScoredAt(k) ==
    CHOOSE c \in CompareCalls :
        Cardinality({b \in CompareCalls : b <= c}) = k

\* C19: every result row records what was scored: its prediction is the
\* encoding of the prediction as the comparator was given it, its truth is
\* the truth as the comparator was given it, and its hit is the
\* comparator's verdict on these two, whatever adapt did to the objects.
C19_RowRecordsScoredValues ==
    \A k \in DOMAIN result_data :
        /\ result_data[k].prediction = TupleToString(calls[ScoredAt(k)].prediction)
        /\ result_data[k].truth = calls[ScoredAt(k)].truth
        /\ result_data[k].hit = ComparatorCompare(calls[ScoredAt(k)].prediction,
                                                  calls[ScoredAt(k)].truth)

\* -------------------------------------------------------------- C20
\* C20: dir_context leaves the search path as it found it: whenever
\* evaluate() is outside the context, the search path is the sequence of
\* entries, in the same order, that the context found when it was last
\* entered, also when the directory was an entry already.
C20_SearchPathAsFound ==
    Outside => sys_path = entered_path

====
